---- MODULE Spec2Model ----
(***************************************************************************)
(* A model of the binary-I/O core of LOOS:                                 *)
(*   - MultiTrajectory (src/src/MultiTraj.cpp): several trajectories       *)
(*     presented as one, with a per-trajectory skip and a stride;          *)
(*   - internal::XDR (src/xdr.hpp): word-sized scalar and padded block     *)
(*     transfer with byte swapping;                                        *)
(*   - DCDWriter (src/dcdwriter.hpp): the self-extending DCD writer.       *)
(* Each subsystem has its own specifications (SpecMT; SpecXDR,             *)
(* SpecXDRBlock, SpecXDRWrite and SpecXDRArray; SpecDCD); the variables of *)
(* the other subsystems stay at their idle values.                         *)
(***************************************************************************)
EXTENDS Integers, Sequences, FiniteSets, TLC

VARIABLES
  \* ---- MultiTrajectory
  trajs,      \* _trajectories: the native frame count of each trajectory
  skip,       \* _skip
  stride,     \* _stride
  curtraj,    \* _curtraj (0-based, as in the code)
  curframe,   \* _curframe
  loaded,     \* per trajectory: <<f>> if it holds native frame f, or NoFrame
  group,      \* the caller's AtomicGroup: <<trajectory, frame>> last copied in
  mtOp,       \* the last MultiTrajectory call
  mtArg,      \* the index sought, if it is a seek (0 for the others)
  mtRet,      \* what that call returned / raised
  \* ---- XDR
  xHost,         \* the byte order of the host the XDR object runs on
  need_to_swab,  \* XDR::need_to_swab
  xStream,       \* the bytes of the stream, in file order
  xGet,          \* the stream's read position (bytes consumed)
  xFail,         \* the stream's fail() state
  xLog,          \* the items written so far: what, where, and on which host
  xOp,           \* the last XDR call
  xSize,         \* its sizeof(T), or its byte count n
  xOff,          \* the read position before it (for an array write, the
                 \* length of the stream before it)
  xDst,          \* what a read stored through its pointer
  xRet,          \* what it returned
  xThrew,        \* whether it threw std::logic_error instead of returning
  xCount,        \* the element count n of an array call (0 for the others)
  xSrc,          \* the elements an array write was handed
  xTried,        \* the scalar calls an array call made
  \* ---- DCDWriter
  natoms,        \* _natoms
  nsteps,        \* _nsteps
  current,       \* _current
  has_box,       \* _has_box
  headerWritten, \* whether the header record has been emitted
  ofs,           \* _ofs: the fields of the output stream, in file order
  wpos,          \* the write position of _ofs
  written,       \* the frames written so far, in call order
  declared,      \* the step count the header was emitted with
  titles,        \* _titles
  headers,       \* the header records emitted so far
  dOp,           \* the last DCDWriter call
  dFrames,       \* the frames it was handed: [natoms, box] each
  dImplicit,     \* whether it was a frame write that found no header written
  dRet           \* how it ended

mtVars ==
  <<trajs, skip, stride, curtraj, curframe, loaded, group, mtOp, mtArg, mtRet>>

xVars ==
  <<xHost, need_to_swab, xStream, xGet, xFail, xLog, xOp, xSize, xOff, xDst, xRet,
    xThrew, xCount, xSrc, xTried>>

dVars ==
  <<natoms, nsteps, current, has_box, headerWritten, ofs, wpos, written, declared,
    titles, headers, dOp, dFrames, dImplicit, dRet>>

vars == <<mtVars, xVars, dVars>>

-----------------------------------------------------------------------------
(* Bounds of the MultiTrajectory model *)
MaxSources == 2
MaxNative == 3
MaxSkip == 1
MaxStride == 2

\* A trajectory that holds no frame; a group no coordinates were copied into
NoFrame == <<>>
NoCoords == <<>>

RECURSIVE SeqsUpTo(_, _)
SeqsUpTo(S, n) ==
  IF n = 0 THEN {<<>>}
  ELSE LET shorter == SeqsUpTo(S, n - 1)
       IN shorter \cup {Append(s, x) : s \in {t \in shorter : Len(t) = n - 1}, x \in S}

\* The source lists, skips and strides the model is run on: every small
\* list, the list of the documentation's worked example, and a list with a
\* trajectory shorter than the skip between two usable ones.
ExampleConfig == [trajs |-> <<10, 5, 20>>, skip |-> 2, stride |-> 3]
ShortMiddleConfig == [trajs |-> <<3, 1, 2>>, skip |-> 1, stride |-> 1]

Configs ==
  {[trajs |-> t, skip |-> s, stride |-> d] :
      t \in SeqsUpTo(0..MaxNative, MaxSources), s \in 0..MaxSkip, d \in 1..MaxStride}
  \cup {ExampleConfig, ShortMiddleConfig}

-----------------------------------------------------------------------------
(* MultiTrajectory *)

NumTrajs == Len(trajs)

\* _trajectories[k]->nframes(): the native frame count of trajectory k
NativeFrames(k) == trajs[k + 1]

\* MultiTrajectory::nframes(k): the frames of trajectory k left after skip
\* and stride
nframes(k) ==
  IF NativeFrames(k) > skip
  THEN ((NativeFrames(k) - skip - 1) \div stride) + 1
  ELSE 0

\* _nframes, as accumulated by initWithList
RECURSIVE SumFrames(_)
SumFrames(k) == IF k = 0 THEN 0 ELSE SumFrames(k - 1) + nframes(k - 1)

TotalFrames == SumFrames(NumTrajs)

\* MultiTrajectory::eof()
eofAt(ct) == ct >= NumTrajs
eof == eofAt(curtraj)

\* A variant of findNextUsableTraj that also accepts a trajectory of exactly
\* _skip frames
RECURSIVE findNextUsableTraj_ge(_)
findNextUsableTraj_ge(ct) ==
  IF ct < NumTrajs
  THEN IF NativeFrames(ct) >= skip THEN ct ELSE findNextUsableTraj_ge(ct + 1)
  ELSE ct

\* findNextUsableTraj(): the value of _curtraj when the loop ends, started
\* at ct
RECURSIVE findNextUsableTraj(_)
findNextUsableTraj(ct) ==
  IF ct < NumTrajs
  THEN IF NativeFrames(ct) > skip THEN ct ELSE findNextUsableTraj(ct + 1)
  ELSE ct

\* A variant of the loop that stops one trajectory early (>= for >)
RECURSIVE LocationLoop_ge(_, _, _)
LocationLoop_ge(i, k, j) ==
  IF k < NumTrajs
  THEN IF j + nframes(k) >= i
       THEN <<k, j>>
       ELSE LocationLoop_ge(i, k + 1, j + nframes(k))
  ELSE <<k, j>>

\* The loop of frameIndexToLocation, at trajectory k with j frames counted
RECURSIVE LocationLoop(_, _, _)
LocationLoop(i, k, j) ==
  IF k < NumTrajs
  THEN IF j + nframes(k) > i
       THEN <<k, j>>
       ELSE LocationLoop(i, k + 1, j + nframes(k))
  ELSE <<k, j>>

\* A variant of frameIndexToLocation that forgets the skip
frameIndexToLocation_noSkip(i) ==
  LET kj == LocationLoop(i, 0, 0)
  IN <<kj[1], (i - kj[2]) * stride>>

\* frameIndexToLocation(i): Location(k, _skip + (i-j) * _stride)
frameIndexToLocation(i) ==
  LET kj == LocationLoop(i, 0, 0)
  IN <<kj[1], skip + (i - kj[2]) * stride>>

\* Trajectory::readFrame(f) of trajectory k: holds frame f afterwards if it
\* has one
ReadFrameOk(k, f) == f < NativeFrames(k)
ReadFrameInto(ld, k, f) ==
  IF ReadFrameOk(k, f) THEN [ld EXCEPT ![k + 1] = <<f>>] ELSE ld

\* rewindImpl(), as the cursor and the trajectories it leaves
RewindCursor == <<findNextUsableTraj(0), skip>>

\* A variant of rewindImpl that leaves the first frame unread
RewindLoaded_noRead == [k \in 1..NumTrajs |-> NoFrame]

RewindLoaded ==
  LET ct == RewindCursor[1]
      rewound == [k \in 1..NumTrajs |-> NoFrame]
  IN IF ~eofAt(ct) THEN ReadFrameInto(rewound, ct, RewindCursor[2]) ELSE rewound

\* A variant of rewindImpl that starts the search for a usable trajectory
\* at the current one (no _curtraj = 0)
rewindImpl_noReset ==
  /\ curtraj' = findNextUsableTraj(curtraj)
  /\ curframe' = RewindCursor[2]
  /\ loaded' = RewindLoaded
  /\ mtOp' = "rewind"
  /\ mtArg' = 0
  /\ mtRet' = "ok"
  /\ UNCHANGED <<trajs, skip, stride, group>>
  /\ UNCHANGED <<xVars, dVars>>

rewindImpl ==
  /\ curtraj' = RewindCursor[1]
  /\ curframe' = RewindCursor[2]
  /\ loaded' = RewindLoaded
  /\ mtOp' = "rewind"
  /\ mtArg' = 0
  /\ mtRet' = "ok"
  /\ UNCHANGED <<trajs, skip, stride, group>>
  /\ UNCHANGED <<xVars, dVars>>

\* A variant of seekNextFrameImpl that steps _curframe before it tests eof()
seekNextFrameImpl_incFirst ==
  /\ IF eof
     THEN /\ curframe' = curframe + stride
          /\ curtraj' = curtraj
     ELSE IF curframe + stride >= NativeFrames(curtraj)
          THEN /\ curframe' = skip
               /\ curtraj' = findNextUsableTraj(curtraj + 1)
          ELSE /\ curframe' = curframe + stride
               /\ curtraj' = curtraj
  /\ mtOp' = "advance"
  /\ mtArg' = 0
  /\ mtRet' = "ok"
  /\ UNCHANGED <<trajs, skip, stride, loaded, group>>
  /\ UNCHANGED <<xVars, dVars>>

\* A variant of seekNextFrameImpl that keeps stepping _curframe when it
\* moves to the next trajectory (no _curframe = _skip)
seekNextFrameImpl_noSkipReset ==
  /\ IF eof
     THEN UNCHANGED <<curtraj, curframe>>
     ELSE IF curframe + stride >= NativeFrames(curtraj)
          THEN /\ curframe' = curframe + stride
               /\ curtraj' = findNextUsableTraj(curtraj + 1)
          ELSE /\ curframe' = curframe + stride
               /\ curtraj' = curtraj
  /\ mtOp' = "advance"
  /\ mtArg' = 0
  /\ mtRet' = "ok"
  /\ UNCHANGED <<trajs, skip, stride, loaded, group>>
  /\ UNCHANGED <<xVars, dVars>>

\* A variant of seekNextFrameImpl that leaves a trajectory one step late
\* (> for >=)
seekNextFrameImpl_gt ==
  /\ IF eof
     THEN UNCHANGED <<curtraj, curframe>>
     ELSE IF curframe + stride > NativeFrames(curtraj)
          THEN /\ curframe' = skip
               /\ curtraj' = findNextUsableTraj(curtraj + 1)
          ELSE /\ curframe' = curframe + stride
               /\ curtraj' = curtraj
  /\ mtOp' = "advance"
  /\ mtArg' = 0
  /\ mtRet' = "ok"
  /\ UNCHANGED <<trajs, skip, stride, loaded, group>>
  /\ UNCHANGED <<xVars, dVars>>

seekNextFrameImpl ==
  /\ IF eof
     THEN UNCHANGED <<curtraj, curframe>>
     ELSE IF curframe + stride >= NativeFrames(curtraj)
          THEN /\ curframe' = skip
               /\ curtraj' = findNextUsableTraj(curtraj + 1)
          ELSE /\ curframe' = curframe + stride
               /\ curtraj' = curtraj
  /\ mtOp' = "advance"
  /\ mtArg' = 0
  /\ mtRet' = "ok"
  /\ UNCHANGED <<trajs, skip, stride, loaded, group>>
  /\ UNCHANGED <<xVars, dVars>>

\* A variant of seekFrameImpl that lets the index _nframes through (> for >=)
seekFrameImpl_gt(i) ==
  /\ IF i > TotalFrames
     THEN /\ mtRet' = "FileReadError"
          /\ UNCHANGED <<curtraj, curframe>>
     ELSE /\ mtRet' = "ok"
          /\ curtraj' = frameIndexToLocation(i)[1]
          /\ curframe' = frameIndexToLocation(i)[2]
  /\ mtOp' = "seek"
  /\ mtArg' = i
  /\ UNCHANGED <<trajs, skip, stride, loaded, group>>
  /\ UNCHANGED <<xVars, dVars>>

seekFrameImpl(i) ==
  /\ IF i >= TotalFrames
     THEN /\ mtRet' = "FileReadError"
          /\ UNCHANGED <<curtraj, curframe>>
     ELSE /\ mtRet' = "ok"
          /\ curtraj' = frameIndexToLocation(i)[1]
          /\ curframe' = frameIndexToLocation(i)[2]
  /\ mtOp' = "seek"
  /\ mtArg' = i
  /\ UNCHANGED <<trajs, skip, stride, loaded, group>>
  /\ UNCHANGED <<xVars, dVars>>

parseFrame ==
  /\ IF eof
     THEN /\ mtRet' = "false"
          /\ UNCHANGED loaded
     ELSE /\ mtRet' = IF ReadFrameOk(curtraj, curframe) THEN "true" ELSE "false"
          /\ loaded' = ReadFrameInto(loaded, curtraj, curframe)
  /\ mtOp' = "parse"
  /\ mtArg' = 0
  /\ UNCHANGED <<trajs, skip, stride, curtraj, curframe, group>>
  /\ UNCHANGED <<xVars, dVars>>

updateGroupCoordsImpl ==
  /\ IF eof
     THEN UNCHANGED group
     ELSE group' = <<curtraj, loaded[curtraj + 1]>>
  /\ mtOp' = "update"
  /\ mtArg' = 0
  /\ mtRet' = "ok"
  /\ UNCHANGED <<trajs, skip, stride, curtraj, curframe, loaded>>
  /\ UNCHANGED <<xVars, dVars>>

\* The XDR variables while no XDR object exists
XdrIdle ==
  /\ xHost = "none"
  /\ need_to_swab = FALSE
  /\ xStream = <<>>
  /\ xGet = 0
  /\ xFail = FALSE
  /\ xLog = <<>>
  /\ xOp = "none"
  /\ xSize = 0
  /\ xOff = 0
  /\ xDst = <<>>
  /\ xRet = 0
  /\ xThrew = FALSE
  /\ xCount = 0
  /\ xSrc = <<>>
  /\ xTried = 0

\* The DCDWriter variables while no DCDWriter exists
DcdIdle ==
  /\ natoms = 0
  /\ nsteps = 0
  /\ current = 0
  /\ has_box = FALSE
  /\ headerWritten = FALSE
  /\ ofs = <<>>
  /\ wpos = 0
  /\ written = <<>>
  /\ declared = 0
  /\ titles = <<>>
  /\ headers = 0
  /\ dOp = "none"
  /\ dFrames = <<>>
  /\ dImplicit = FALSE
  /\ dRet = "ok"

\* The MultiTrajectory variables while no MultiTrajectory exists
MtIdle ==
  /\ trajs = <<>>
  /\ skip = 0
  /\ stride = 1
  /\ curtraj = 0
  /\ curframe = 0
  /\ loaded = <<>>
  /\ group = NoCoords
  /\ mtOp = "none"
  /\ mtArg = 0
  /\ mtRet = "ok"

\* The frame indices a caller seeks to: every valid one and two past the end
SeekInputs == 0..(TotalFrames + 1)

InitMT ==
  /\ \E c \in Configs :
       /\ trajs = c.trajs
       /\ skip = c.skip
       /\ stride = c.stride
  /\ curtraj = RewindCursor[1]
  /\ curframe = RewindCursor[2]
  /\ loaded = RewindLoaded
  /\ group = NoCoords
  /\ mtOp = "init"
  /\ mtArg = 0
  /\ mtRet = "ok"
  /\ XdrIdle
  /\ DcdIdle

NextMT ==
  \/ rewindImpl
  \/ seekNextFrameImpl
  \/ \E i \in SeekInputs : seekFrameImpl(i)
  \/ parseFrame
  \/ updateGroupCoordsImpl

SpecMT == InitMT /\ [][NextMT]_vars

-----------------------------------------------------------------------------
(* Properties of MultiTrajectory *)

\* The trajectories whose range of frame indices [base, base + usable)
\* contains i
OwnersOf(i) ==
  {k \in 0..(NumTrajs - 1) : SumFrames(k) <= i /\ i < SumFrames(k + 1)}

\* The first trajectory with more than skip frames, NumTrajs if there is none
FirstUsable ==
  LET usable == {k \in 0..(NumTrajs - 1) : NativeFrames(k) > skip}
  IN IF usable = {} THEN NumTrajs
     ELSE CHOOSE k \in usable : \A m \in usable : k <= m

IsExample == trajs = <<10, 5, 20>> /\ skip = 2 /\ stride = 3

SoughtTo(i) == mtOp = "seek" /\ mtArg = i

\* C1: a seek to a valid index i succeeds and leaves the cursor on the one
\* trajectory whose cumulative range of usable frames contains i, at native
\* frame skip + (i - base) * stride, which that trajectory has.
C1_SeekLocation ==
  (mtOp = "seek" /\ mtArg < TotalFrames) =>
     /\ mtRet = "ok"
     /\ OwnersOf(mtArg) = {curtraj}
     /\ curframe = skip + (mtArg - SumFrames(curtraj)) * stride
     /\ curframe < NativeFrames(curtraj)

C1_Witness ==
  /\ mtOp = "seek"
  /\ mtRet = "ok"
  /\ curtraj > 0
  /\ mtArg > SumFrames(curtraj)
  /\ stride > 1
  /\ skip > 0

\* C2: for native frame counts {10, 5, 20}, skip 2 and stride 3 the usable
\* counts are {3, 1, 6}, 10 in all; seeking to 0, 3, 4 and 9 gives (0, 2),
\* (1, 2), (2, 2) and (2, 17), and seeking to 10 fails.
C2_Example ==
  IsExample =>
     /\ nframes(0) = 3 /\ nframes(1) = 1 /\ nframes(2) = 6
     /\ TotalFrames = 10
     /\ SoughtTo(0) => (mtRet = "ok" /\ <<curtraj, curframe>> = <<0, 2>>)
     /\ SoughtTo(3) => (mtRet = "ok" /\ <<curtraj, curframe>> = <<1, 2>>)
     /\ SoughtTo(4) => (mtRet = "ok" /\ <<curtraj, curframe>> = <<2, 2>>)
     /\ SoughtTo(9) => (mtRet = "ok" /\ <<curtraj, curframe>> = <<2, 17>>)
     /\ SoughtTo(10) => mtRet = "FileReadError"

C2_Witness == IsExample /\ SoughtTo(9) /\ <<curtraj, curframe>> = <<2, 17>>

\* C3: a seek to an index at or beyond the total number of frames raises the
\* out-of-range error and leaves the cursor and every trajectory as they were.
C3_SeekPastEnd ==
  [][(mtOp' = "seek" /\ mtArg' >= TotalFrames) =>
        /\ mtRet' = "FileReadError"
        /\ curtraj' = curtraj
        /\ curframe' = curframe
        /\ loaded' = loaded
        /\ trajs' = trajs]_mtVars

C3_Witness ==
  /\ mtOp = "seek"
  /\ mtArg = TotalFrames
  /\ mtRet = "FileReadError"
  /\ ~eof
  /\ <<curtraj, curframe>> # RewindCursor

\* C4: a trajectory with no more than skip frames has no usable frame and is
\* never the current one: the cursor is at the end or on a trajectory with
\* more than skip frames.
C4_NeverOnShortTraj ==
  /\ \A k \in 0..(NumTrajs - 1) : NativeFrames(k) <= skip => nframes(k) = 0
  /\ eof \/ NativeFrames(curtraj) > skip

C4_Witness ==
  /\ mtOp = "advance"
  /\ ~eof
  /\ curframe = skip
  /\ curtraj = 2
  /\ NativeFrames(1) <= skip
  /\ NativeFrames(0) > skip

\* C5: right after a rewind that does not end at eof the cursor is on the
\* first usable trajectory at frame skip and that trajectory already holds
\* that frame, so that copying the coordinates out as the very next call
\* delivers it.
C5_RewindPrimes ==
  [][(mtOp = "rewind" /\ ~eof) =>
        /\ curtraj = FirstUsable
        /\ curframe = skip
        /\ loaded[curtraj + 1] = <<skip>>
        /\ (mtOp' = "update" => group' = <<FirstUsable, <<skip>>>>)]_mtVars

C5_Witness ==
  /\ mtOp = "rewind"
  /\ ~eof
  /\ curtraj > 0
  /\ skip > 0
  /\ loaded[curtraj + 1] = <<skip>>
  /\ group # NoCoords
  /\ group # <<curtraj, <<skip>>>>

\* C6: at eof, advancing, reading the current frame and copying coordinates
\* out change neither the cursor, nor any trajectory, nor the caller's
\* group; reading reports that nothing was read; and only a rewind or a seek
\* to a valid index leaves eof.
C6_EofNoOp ==
  [][eof =>
        /\ (mtOp' \in {"advance", "parse", "update"}) =>
              /\ curtraj' = curtraj
              /\ curframe' = curframe
              /\ loaded' = loaded
              /\ group' = group
              /\ (mtOp' = "parse" => mtRet' = "false")
        /\ ~eof' => (mtOp' = "rewind" \/ (mtOp' = "seek" /\ mtArg' < TotalFrames))
    ]_mtVars

C6_Witness ==
  /\ eof
  /\ mtOp = "parse"
  /\ mtRet = "false"
  /\ TotalFrames > 0
  /\ group # NoCoords

\* The only index k whose location frameIndexToLocation(k) can be the cursor:
\* that location is <<t, skip + (k - SumFrames(t)) * stride>> for some t
IndexOfCursor == SumFrames(curtraj) + ((curframe - skip) \div stride)

\* C15: rewind leaves the cursor where seek(0) puts it, not at the end (or
\* at the end, if there is no frame at all), and an advance from where
\* seek(k) puts the cursor leaves it where seek(k + 1) puts it, not at the
\* end, or at the end if k + 1 is the total number of frames. So the cursor
\* after k advances from rewind is the cursor of seek(k) for every k below
\* the total, the stream is not at its end before that many advances, and
\* it is at its end after exactly as many advances as the total.
C15_IterationAgrees ==
  [][/\ mtOp' = "rewind" =>
          IF TotalFrames > 0
          THEN <<curtraj', curframe'>> = frameIndexToLocation(0) /\ ~eofAt(curtraj')
          ELSE eofAt(curtraj')
     /\ (mtOp' = "advance" /\ ~eof) =>
          LET k == IndexOfCursor
          IN (k \in 0..(TotalFrames - 1) /\ <<curtraj, curframe>> = frameIndexToLocation(k)) =>
                IF k + 1 < TotalFrames
                THEN <<curtraj', curframe'>> = frameIndexToLocation(k + 1) /\ ~eofAt(curtraj')
                ELSE eofAt(curtraj')]_vars

C15_Witness ==
  /\ IsExample
  /\ mtOp = "advance"
  /\ frameIndexToLocation(4) = <<2, 2>>
  /\ curtraj = 2
  /\ curframe = 2
  /\ ~eof

\* C16: whatever the state it is called in, rewind leaves every trajectory
\* rewound, and the cursor on the first trajectory with more than skip
\* frames, at frame skip, with that frame read; or, if no trajectory has
\* more than skip frames, at the end with no frame read. What it leaves is
\* fixed by the trajectories and skip alone.
C16_RewindResets ==
  [][mtOp' = "rewind" =>
       /\ curtraj' = FirstUsable
       /\ IF FirstUsable < NumTrajs
          THEN curframe' = skip /\ ~eofAt(curtraj')
          ELSE eofAt(curtraj')
       /\ \A k \in 0..(NumTrajs - 1) :
            loaded'[k + 1] = IF k = FirstUsable THEN <<skip>> ELSE NoFrame]_vars

C16_Witness ==
  /\ IsExample
  /\ mtOp = "rewind"
  /\ curtraj = 0
  /\ curframe = 2
  /\ loaded = <<<<2>>, NoFrame, NoFrame>>
  /\ group = <<2, <<17>>>>

\* C21: in every state reached by rewinds, advances and seeks, if the stream
\* is not at its end then the cursor is on one of the trajectories, at a
\* native frame that is at least skip, below that trajectory's native frame
\* count, and a whole number of strides after skip; so a parseFrame that is
\* not at the end asks the trajectory for a frame it has, and reads it.
C21_CursorInvariant ==
  /\ ~eof =>
       /\ curtraj >= 0
       /\ curtraj < NumTrajs
       /\ skip <= curframe
       /\ curframe < NativeFrames(curtraj)
       /\ (curframe - skip) % stride = 0
  /\ (mtOp = "parse" /\ ~eof) =>
       /\ ReadFrameOk(curtraj, curframe)
       /\ mtRet = "true"
       /\ loaded[curtraj + 1] = <<curframe>>

C21_Witness ==
  /\ IsExample
  /\ mtOp = "parse"
  /\ mtRet = "true"
  /\ ~eof
  /\ curtraj = 2
  /\ curframe = 17
  /\ loaded[3] = <<17>>

-----------------------------------------------------------------------------
(* internal::XDR *)

(* Bounds of the XDR model *)
MaxStreamLen == 8   \* the bytes the device takes before a write fails
MaxBlockLen == 4    \* the longest block written or read
MaxScalars == 1     \* the scalars a run writes
MaxBlocks == 2      \* the blocks a run writes
MaxArrayLen == 2    \* the longest array written or read

\* sizeof(uint), the external block size
WordSize == 4

\* The code moves bytes and never computes with them (but for the zero
\* padding), so two byte values are enough to tell any two bytes apart.
Byte == {0, 1}
BytesOf(n) == [1..n -> Byte]
Zeros(n) == [i \in 1..n |-> 0]

\* sizeof(T) of the scalar types read and written: char, short, int/float,
\* and double, which does not fit a word
ScalarSizes == {1, 2, 4, 8}
Hosts == {"little", "big"}

Reverse(b) == [i \in 1..Len(b) |-> b[Len(b) + 1 - i]]

\* A scalar value is the sequence of its bytes, most significant first;
\* its object representation in memory depends on the host.
HostBytes(v, h) == IF h = "little" THEN Reverse(v) ELSE v
HostValue(m, h) == IF h = "little" THEN Reverse(m) ELSE m

\* swab(x): x with the bytes of its object representation reversed
swab(m) == Reverse(m)

\* XDR::XDR: int test = 0x1234; the first byte in memory is 0x34 on a
\* little-endian host
ProbeSwab(h) ==
  LET test == HostBytes(<<0, 0, 18, 52>>, h)
  IN test[1] = 52

\* std::iostream as the triple [stream, get, fail].
\* read(buf, k): the bytes stored in buf and the stream afterwards
StreamRead(st, k) ==
  IF st.fail
  THEN [bytes |-> <<>>, st |-> st]
  ELSE IF st.get + k <= Len(st.stream)
       THEN [bytes |-> SubSeq(st.stream, st.get + 1, st.get + k),
             st |-> [st EXCEPT !.get = st.get + k]]
       ELSE [bytes |-> SubSeq(st.stream, st.get + 1, Len(st.stream)),
             st |-> [st EXCEPT !.get = Len(st.stream), !.fail = TRUE]]

\* write(buf, k): the stream afterwards; a write the device has no room for
\* fails after the bytes that fit
StreamWrite(st, bytes) ==
  IF st.fail
  THEN st
  ELSE IF Len(st.stream) + Len(bytes) <= MaxStreamLen
       THEN [st EXCEPT !.stream = st.stream \o bytes]
       ELSE [st EXCEPT !.stream = st.stream \o SubSeq(bytes, 1, MaxStreamLen - Len(st.stream)),
                       !.fail = TRUE]

XStream == [stream |-> xStream, get |-> xGet, fail |-> xFail]

\* A variant of write(T*) that hands stream->write the sizeof(T) bytes of *p
EncodeScalar_noWord(s, v, g, h, sw) ==
  IF s > 1 /\ sw THEN swab(HostBytes(v, h)) ELSE HostBytes(v, h)

\* XDR::write(T*): the word u handed to stream->write. u is uninitialized
\* (bytes g) except for the sizeof(T) bytes *up = *p stores at its start;
\* swab(u) reverses the whole word.
EncodeScalar(s, v, g, h, sw) ==
  LET u == HostBytes(v, h) \o g
  IN IF s > 1 /\ sw THEN swab(u) ELSE u

\* XDR::read(T*): the value stored through p for the word `data` read:
\* result is the first sizeof(T) bytes of data; swab(result) reverses those.
DecodeScalar(s, data, h, sw) ==
  LET result == SubSeq(data, 1, s)
  IN HostValue(IF s > 1 /\ sw THEN swab(result) ELSE result, h)

\* A variant of write's rndup that keeps the remainder (no WordSize - rndup)
WriteRndup_noSub(n) == n % WordSize

\* rndup of XDR::read(char*, uint) and of XDR::write(char*, uint)
ReadRndup(n) == IF n % WordSize > 0 THEN WordSize - (n % WordSize) ELSE 0
WriteRndup(n) == IF n % WordSize > 0 THEN WordSize - (n % WordSize) ELSE 0

LogEntry(kind, size, val, st) ==
  [kind |-> kind, size |-> size, val |-> val, off |-> Len(xStream),
   len |-> Len(st.stream) - Len(xStream), host |-> xHost]

\* The calls that are not array calls leave no array history
NotAnArray ==
  /\ xCount' = 0
  /\ xSrc' = <<>>
  /\ xTried' = 0

\* A new XDR object, on a host of either byte order, over the stream
\* reopened at its start
XdrConstruct(h) ==
  /\ xHost' = h
  /\ need_to_swab' = ProbeSwab(h)
  /\ xGet' = 0
  /\ xFail' = FALSE
  /\ xOp' = "construct"
  /\ xSize' = 0
  /\ xOff' = 0
  /\ xDst' = <<>>
  /\ xRet' = 0
  /\ xThrew' = FALSE
  /\ NotAnArray
  /\ UNCHANGED <<xStream, xLog>>
  /\ UNCHANGED <<mtVars, dVars>>

\* XDR::write(T* p) for a T of s bytes holding v
XdrWriteScalar(s, v, g) ==
  /\ Len(xLog) < MaxScalars
  /\ xOp' = "writeScalar"
  /\ NotAnArray
  /\ xSize' = s
  /\ xOff' = xGet
  /\ xDst' = <<>>
  /\ IF s > WordSize
     THEN /\ xThrew' = TRUE
          /\ xRet' = 0
          /\ UNCHANGED <<xStream, xGet, xFail, xLog>>
     ELSE LET st == StreamWrite(XStream, EncodeScalar(s, v, g, xHost, need_to_swab))
          IN /\ xThrew' = FALSE
             /\ xStream' = st.stream
             /\ xFail' = st.fail
             /\ xRet' = IF st.fail THEN 0 ELSE 1
             /\ xLog' = IF st.fail THEN xLog
                        ELSE Append(xLog, LogEntry("scalar", s, v, st))
             /\ UNCHANGED xGet
  /\ UNCHANGED <<xHost, need_to_swab>>
  /\ UNCHANGED <<mtVars, dVars>>

\* A variant of read(T*) that reads the word before it tests sizeof(T)
XdrReadScalar_lateCheck(s, g) ==
  LET r == StreamRead(XStream, WordSize)
      data == SubSeq(r.bytes, 1, s - Len(g)) \o g
  IN /\ xOp' = "readScalar"
     /\ NotAnArray
     /\ xSize' = s
     /\ xOff' = xGet
     /\ xGet' = r.st.get
     /\ xFail' = r.st.fail
     /\ IF s > WordSize
        THEN /\ xThrew' = TRUE
             /\ xRet' = 0
             /\ xDst' = <<>>
        ELSE /\ xThrew' = FALSE
             /\ xDst' = DecodeScalar(s, data, xHost, need_to_swab)
             /\ xRet' = IF r.st.fail THEN 0 ELSE 1
     /\ UNCHANGED <<xHost, need_to_swab, xStream, xLog>>
     /\ UNCHANGED <<mtVars, dVars>>

\* XDR::read(T* p) for a T of s bytes; g is what the bytes of the
\* uninitialized `data` that *pdata reads hold where the stream stored nothing
XdrReadScalar(s, g) ==
  /\ xOp' = "readScalar"
  /\ NotAnArray
  /\ xSize' = s
  /\ xOff' = xGet
  /\ IF s > WordSize
     THEN /\ xThrew' = TRUE
          /\ xRet' = 0
          /\ xDst' = <<>>
          /\ UNCHANGED <<xGet, xFail>>
     ELSE LET r == StreamRead(XStream, WordSize)
              data == SubSeq(r.bytes, 1, s - Len(g)) \o g
          IN /\ xThrew' = FALSE
             /\ xDst' = DecodeScalar(s, data, xHost, need_to_swab)
             /\ xGet' = r.st.get
             /\ xFail' = r.st.fail
             /\ xRet' = IF r.st.fail THEN 0 ELSE 1
  /\ UNCHANGED <<xHost, need_to_swab, xStream, xLog>>
  /\ UNCHANGED <<mtVars, dVars>>

\* XDR::write(char* p, const uint n) for the n bytes b
XdrWriteBlock(b) ==
  LET n == Len(b)
      st1 == StreamWrite(XStream, b)
      st2 == IF ~st1.fail THEN StreamWrite(st1, Zeros(WriteRndup(n))) ELSE st1
  IN /\ Len(xLog) < MaxBlocks
     /\ xOp' = "writeBlock"
     /\ NotAnArray
     /\ xSize' = n
     /\ xOff' = xGet
     /\ xDst' = <<>>
     /\ xThrew' = FALSE
     /\ xStream' = st2.stream
     /\ xFail' = st2.fail
     /\ xRet' = IF st2.fail THEN 0 ELSE n
     /\ xLog' = IF st2.fail THEN xLog ELSE Append(xLog, LogEntry("block", n, b, st2))
     /\ UNCHANGED <<xHost, need_to_swab, xGet>>
     /\ UNCHANGED <<mtVars, dVars>>

\* XDR::read(char* p, uint n)
XdrReadBlock(n) ==
  /\ xOp' = "readBlock"
  /\ NotAnArray
  /\ xSize' = n
  /\ xOff' = xGet
  /\ xThrew' = FALSE
  /\ IF n = 0
     THEN /\ xRet' = 1
          /\ xDst' = <<>>
          /\ UNCHANGED <<xGet, xFail>>
     ELSE LET r1 == StreamRead(XStream, n)
              r2 == IF ~r1.st.fail /\ ReadRndup(n) > 0
                    THEN StreamRead(r1.st, ReadRndup(n))
                    ELSE r1
          IN /\ xDst' = r1.bytes
             /\ xRet' = IF r1.st.fail THEN 0 ELSE n
             /\ xGet' = r2.st.get
             /\ xFail' = r2.st.fail
  /\ UNCHANGED <<xHost, need_to_swab, xStream, xLog>>
  /\ UNCHANGED <<mtVars, dVars>>

\* The bytes stream->read(data, 4) stores at the current position
Stored == IF xFail THEN 0 ELSE IF xGet + WordSize <= Len(xStream) THEN WordSize ELSE Len(xStream) - xGet

\* What the first s bytes of `data` may hold beyond the bytes stored
Garbage(s) == BytesOf(IF s > WordSize \/ s <= Stored THEN 0 ELSE s - Stored)

\* sizeof(T) of the element types of arrays: int/float, and double, which
\* does not fit a word
ArraySizes == {4, 8}

\* The values of the scalars and array elements a run of writes is handed:
\* zero and one
ElemValues(s) == {Zeros(s), [i \in 1..s |-> IF i = s THEN 1 ELSE 0]}

\* A variant of write(T* ary, n) that goes on after a failed write(&(ary[i]))
RECURSIVE WriteArrayLoop_noStop(_, _, _, _, _, _, _)
WriteArrayLoop_noStop(st, i, s, vs, gs, h, sw) ==
  IF i >= Len(vs)
  THEN [st |-> st, i |-> i, tried |-> i]
  ELSE WriteArrayLoop_noStop(StreamWrite(st, EncodeScalar(s, vs[i + 1], gs[i + 1], h, sw)),
                             i + 1, s, vs, gs, h, sw)

\* for (i=0; i<n && write(&(ary[i])); ++i) ;  from i on, on the stream st:
\* the stream afterwards, the final i, and the calls of write(T*) made
RECURSIVE WriteArrayLoop(_, _, _, _, _, _, _)
WriteArrayLoop(st, i, s, vs, gs, h, sw) ==
  IF i >= Len(vs)
  THEN [st |-> st, i |-> i, tried |-> i]
  ELSE LET st2 == StreamWrite(st, EncodeScalar(s, vs[i + 1], gs[i + 1], h, sw))
       IN IF st2.fail
          THEN [st |-> st2, i |-> i, tried |-> i + 1]
          ELSE WriteArrayLoop(st2, i + 1, s, vs, gs, h, sw)

\* XDR::write(T* ary, const uint n) for the n elements vs of s bytes each;
\* gs[i] is what the uninitialized bytes of u hold in the i-th write(T*)
XdrWriteArray(s, vs, gs) ==
  LET n == Len(vs)
      res == WriteArrayLoop(XStream, 0, s, vs, gs, xHost, need_to_swab)
  IN /\ xOp' = "writeArray"
     /\ xSize' = s
     /\ xCount' = n
     /\ xSrc' = vs
     /\ xOff' = Len(xStream)
     /\ xDst' = <<>>
     /\ IF s > WordSize /\ n > 0
        THEN /\ xThrew' = TRUE
             /\ xRet' = 0
             /\ xTried' = 1
             /\ UNCHANGED <<xStream, xFail, xLog>>
        ELSE /\ xThrew' = FALSE
             /\ xStream' = res.st.stream
             /\ xFail' = res.st.fail
             /\ xRet' = res.i
             /\ xTried' = res.tried
             /\ xLog' = IF res.i = n /\ n > 0
                        THEN Append(xLog, LogEntry("array", s, vs, res.st))
                        ELSE xLog
     /\ UNCHANGED <<xHost, need_to_swab, xGet>>
     /\ UNCHANGED <<mtVars, dVars>>

\* for (i=0; i<n && read(&(ary[i])); ++i) ;  from i on, on the stream st:
\* the stream afterwards, the final i, and what was stored in ary. g is what
\* the uninitialized `data` holds where a failing stream->read stored nothing.
RECURSIVE ReadArrayLoop(_, _, _, _, _, _, _, _)
ReadArrayLoop(st, i, n, s, g, h, sw, ary) ==
  IF i >= n
  THEN [st |-> st, i |-> i, ary |-> ary]
  ELSE LET r == StreamRead(st, WordSize)
           data == IF r.st.fail THEN SubSeq(r.bytes, 1, s - Len(g)) \o g ELSE r.bytes
           ary2 == Append(ary, DecodeScalar(s, data, h, sw))
       IN IF r.st.fail
          THEN [st |-> r.st, i |-> i, ary |-> ary2]
          ELSE ReadArrayLoop(r.st, i + 1, n, s, g, h, sw, ary2)

\* XDR::read(T* ary, const uint n) for elements of s bytes
XdrReadArray(s, n, g) ==
  LET res == ReadArrayLoop(XStream, 0, n, s, g, xHost, need_to_swab, <<>>)
  IN /\ xOp' = "readArray"
     /\ xSize' = s
     /\ xCount' = n
     /\ xSrc' = <<>>
     /\ xOff' = xGet
     /\ IF s > WordSize /\ n > 0
        THEN /\ xThrew' = TRUE
             /\ xRet' = 0
             /\ xDst' = <<>>
             /\ xTried' = 1
             /\ UNCHANGED <<xGet, xFail>>
        ELSE /\ xThrew' = FALSE
             /\ xDst' = res.ary
             /\ xTried' = Len(res.ary)
             /\ xGet' = res.st.get
             /\ xFail' = res.st.fail
             /\ xRet' = res.i
     /\ UNCHANGED <<xHost, need_to_swab, xStream, xLog>>
     /\ UNCHANGED <<mtVars, dVars>>

\* The bytes the first failing stream->read of an array read stores
ArrayStored == IF xFail THEN 0 ELSE (Len(xStream) - xGet) % WordSize

\* What the first s bytes of `data` may hold beyond those, in an array read
\* of n elements
ArrayGarbage(s, n) ==
  BytesOf(IF s > WordSize \/ (~xFail /\ n * WordSize <= Len(xStream) - xGet)
             \/ s <= ArrayStored
          THEN 0 ELSE s - ArrayStored)

InitXDR ==
  /\ xHost \in Hosts
  /\ need_to_swab = ProbeSwab(xHost)
  /\ xStream = <<>>
  /\ xGet = 0
  /\ xFail = FALSE
  /\ xLog = <<>>
  /\ xOp = "construct"
  /\ xSize = 0
  /\ xOff = 0
  /\ xDst = <<>>
  /\ xRet = 0
  /\ xThrew = FALSE
  /\ xCount = 0
  /\ xSrc = <<>>
  /\ xTried = 0
  /\ MtIdle
  /\ DcdIdle

\* Scalars written and read back, on hosts of either byte order
NextXDR ==
  \/ \E h \in Hosts : XdrConstruct(h)
  \/ \E s \in ScalarSizes :
       \E v \in BytesOf(IF s > WordSize THEN 0 ELSE s),
          g \in BytesOf(IF s > WordSize THEN 0 ELSE WordSize - s) :
            XdrWriteScalar(s, v, g)
  \/ \E s \in ScalarSizes : \E g \in Garbage(s) : XdrReadScalar(s, g)

SpecXDR == InitXDR /\ [][NextXDR]_vars

\* Blocks written and read back
NextXDRBlock ==
  \/ \E n \in 0..MaxBlockLen : \E b \in BytesOf(n) : XdrWriteBlock(b)
  \/ \E n \in 0..MaxBlockLen : XdrReadBlock(n)

SpecXDRBlock == InitXDR /\ [][NextXDRBlock]_vars

\* The arrays of n elements of s bytes a caller may write
ArraysOf(s, n) == [1..n -> ElemValues(IF s > WordSize THEN 0 ELSE s)]
GarbagesOf(s, n) == [1..n -> BytesOf(IF s > WordSize THEN 0 ELSE WordSize - s)]

\* The blocks of n bytes a run of writes is handed: all zero, or all one
BlockValues(n) == {Zeros(n), [i \in 1..n |-> 1]}

\* Scalars, arrays and blocks written one after another
NextXDRWrite ==
  \/ \E s \in ScalarSizes :
       \E v \in ElemValues(IF s > WordSize THEN 0 ELSE s),
          g \in BytesOf(IF s > WordSize THEN 0 ELSE WordSize - s) :
            XdrWriteScalar(s, v, g)
  \/ \E s \in ArraySizes, n \in 0..MaxArrayLen :
       \E vs \in ArraysOf(s, n), gs \in GarbagesOf(s, n) : XdrWriteArray(s, vs, gs)
  \/ \E n \in 0..MaxBlockLen : \E b \in BlockValues(n) : XdrWriteBlock(b)

SpecXDRWrite == InitXDR /\ [][NextXDRWrite]_vars

\* Arrays written and read back
NextXDRArray ==
  \/ \E s \in ArraySizes, n \in 0..MaxArrayLen :
       \E vs \in ArraysOf(s, n), gs \in GarbagesOf(s, n) : XdrWriteArray(s, vs, gs)
  \/ \E s \in ArraySizes, n \in 0..MaxArrayLen :
       \E g \in ArrayGarbage(s, n) : XdrReadArray(s, n, g)

SpecXDRArray == InitXDR /\ [][NextXDRArray]_vars

-----------------------------------------------------------------------------
(* Properties of internal::XDR *)

\* The word of the stream a logged scalar occupies
WordAt(e) == SubSeq(xStream, e.off + 1, e.off + WordSize)

ScalarsAt(off, size) ==
  {i \in DOMAIN xLog :
     xLog[i].kind = "scalar" /\ xLog[i].off = off /\ xLog[i].size = size}

BlocksAt(off, size) ==
  {i \in DOMAIN xLog :
     xLog[i].kind = "block" /\ xLog[i].off = off /\ xLog[i].size = size}

ReadScalarOk == xOp = "readScalar" /\ ~xThrew /\ xRet = 1

\* C7: a scalar of 1, 2 or 4 bytes written with write(T*) and read back with
\* read(T*) under the same byte-swap flag comes back as the value written,
\* and each of the two calls moves exactly one 4-byte word.
C7_ScalarRoundTrip ==
  ReadScalarOk =>
    \A i \in ScalarsAt(xOff, xSize) :
       ProbeSwab(xLog[i].host) = need_to_swab =>
          /\ xDst = xLog[i].val
          /\ xLog[i].len = WordSize
          /\ xGet = xOff + WordSize

\* Padding of a block of n bytes, as the documentation gives it
PadOf(n) == (WordSize - (n % WordSize)) % WordSize

\* C8: write(char*, n) puts the n bytes of the block on the stream followed
\* by exactly (4 - n % 4) % 4 zero bytes, and read(char*, n) at the start of
\* such a block stores the same n bytes and leaves the read position
\* n + (4 - n % 4) % 4 bytes further, at the start of the next item.
C8_BlockRoundTrip ==
  /\ \A i \in DOMAIN xLog :
       LET e == xLog[i]
       IN e.kind = "block" =>
            /\ e.len = e.size + PadOf(e.size)
            /\ SubSeq(xStream, e.off + 1, e.off + e.size) = e.val
            /\ SubSeq(xStream, e.off + e.size + 1, e.off + e.len) = Zeros(PadOf(e.size))
  /\ (xOp = "readBlock" /\ xRet # 0) =>
       \A i \in BlocksAt(xOff, xSize) :
          /\ xDst = xLog[i].val
          /\ xGet = xOff + xSize + PadOf(xSize)
          /\ \A j \in DOMAIN xLog : j = i + 1 => xLog[j].off = xGet

C8_Witness ==
  /\ xOp = "readBlock"
  /\ xSize = 3
  /\ xRet = 3
  /\ xOff = WordSize
  /\ BlocksAt(xOff, xSize) # {}
  /\ xDst = <<1, 0, 1>>
  /\ xGet = 2 * WordSize

\* C9: the byte-swap flag is set exactly on a little-endian host; the word
\* a scalar is written as is one either host writes for that value; and a
\* scalar written on a host of one byte order is read back as the same
\* value on a host of either byte order.
C9_EndianInvariance ==
  /\ need_to_swab <=> (xHost = "little")
  /\ \A i \in DOMAIN xLog :
       LET e == xLog[i]
       IN e.kind = "scalar" =>
            \A h \in Hosts :
               \E g \in BytesOf(WordSize - e.size) :
                  EncodeScalar(e.size, e.val, g, h, ProbeSwab(h)) = WordAt(e)
  /\ ReadScalarOk => \A i \in ScalarsAt(xOff, xSize) : xDst = xLog[i].val

\* C11: as long as every writeScalar, writeArray and writeBlock on a stream
\* that started empty has succeeded, the number of bytes on the stream is a
\* whole multiple of the 4-byte word size.
C11_WholeWords ==
  ~xFail => Len(xStream) % WordSize = 0

C11_Witness ==
  /\ xOp = "writeBlock"
  /\ xRet = 3
  /\ ~xFail
  /\ Len(xLog) = 2
  /\ xLog[1].kind = "array"
  /\ xLog[1].size = WordSize
  /\ xLog[2].kind = "block"
  /\ Len(xStream) = 2 * WordSize

\* The i-th word of the stream from offset off on
WordFrom(off, i) == SubSeq(xStream, off + (i - 1) * WordSize + 1, off + i * WordSize)

\* The scalar calls an array call of n elements makes if k of them succeed
TriedFor(k, n) == IF k < n THEN k + 1 ELSE n

\* C17: read(ary, n) returns the number k <= n of elements read before the
\* first read(&ary[i]) that fails, makes no call of read(T*) after that one,
\* and leaves in ary[0..k-1] the values decoded from the k words that stood
\* at the read position; k = n exactly when no read failed. write(ary, n)
\* likewise returns the number k <= n of elements written before the first
\* write(&ary[i]) that fails, makes no call after it, and has put the words
\* of ary[0..k-1] on the stream; k = n exactly when no write failed.
C17_ArrayPartial ==
  /\ (xOp = "readArray" /\ ~xThrew) =>
       /\ xRet <= xCount
       /\ xTried = TriedFor(xRet, xCount)
       /\ Len(xDst) = xTried
       /\ (xRet = xCount) <=> (xCount = 0 \/ ~xFail)
       /\ ~xFail => xGet = xOff + xRet * WordSize
       /\ \A i \in 1..xRet :
            xDst[i] = DecodeScalar(xSize, WordFrom(xOff, i), xHost, need_to_swab)
  /\ (xOp = "writeArray" /\ ~xThrew) =>
       /\ xRet <= xCount
       /\ xTried = TriedFor(xRet, xCount)
       /\ (xRet = xCount) <=> (xCount = 0 \/ ~xFail)
       /\ Len(xStream) >= xOff + xRet * WordSize
       /\ Len(xStream) < xOff + (xRet + 1) * WordSize
       /\ \A i \in 1..xRet :
            \E g \in BytesOf(WordSize - xSize) :
               WordFrom(xOff, i) = EncodeScalar(xSize, xSrc[i], g, xHost, need_to_swab)

C17_Witness ==
  /\ xOp = "readArray"
  /\ ~xThrew
  /\ xSize = WordSize
  /\ xCount = 2
  /\ xRet = 1
  /\ xTried = 2
  /\ xFail
  /\ xOff = 0
  /\ Len(xStream) = WordSize
  /\ xDst[1] = <<0, 0, 0, 1>>

\* C19: read(T*) and write(T*) for a T wider than a word throw the logic
\* error and nothing else happens: the bytes of the stream, its read position
\* and its fail state are as before and nothing is stored through the
\* pointer; they throw whether or not the stream has failed, and for a T
\* that fits a word they do not throw, whatever the state of the stream.
C19_TooLargeFailsFast ==
  [][xOp' \in {"readScalar", "writeScalar"} =>
       IF xSize' > WordSize
       THEN /\ xThrew'
            /\ UNCHANGED <<xStream, xGet, xFail>>
            /\ xDst' = <<>>
       ELSE ~xThrew']_vars

C19_Witness ==
  /\ xOp = "readScalar"
  /\ xSize > WordSize
  /\ xThrew
  /\ xFail
  /\ xDst = <<>>
  /\ Len(xStream) = WordSize
  /\ xGet = WordSize

\* C18: read(char*, n) returns n if the n bytes of the block were stored and
\* 0 if the stream failed before, write(char*, n) returns n if the block and
\* its padding went out and 0 if the stream failed, for every n >= 0; and a
\* read of no bytes consumes none, succeeds, and returns the byte count 0
\* as a write of no bytes does.
C18_BlockReturn ==
  /\ xOp = "readBlock" =>
       /\ xRet = IF Len(xDst) = xSize THEN xSize ELSE 0
       /\ xSize = 0 => (xGet = xOff /\ xRet = xSize)
  /\ xOp = "writeBlock" =>
       xRet = IF xFail THEN 0 ELSE xSize

-----------------------------------------------------------------------------
(* DCDWriter *)

(* Bounds of the DCDWriter model *)
MaxFrames == 4   \* the frames a run writes
MaxAtoms == 2    \* the largest atom count of a header or frame
MaxSteps == 2    \* the largest step count a caller declares
MaxBatch == 2    \* the longest batch of frames handed to one call

\* The stream holds fields [f |-> name, v |-> value]: the header record
\* (atom count, step count, timestep, box flag, titles), then one record
\* per frame (the box, if any, then the x, y and z coordinate blocks).
Field(name, value) == [f |-> name, v |-> value]

HeaderCells(na, ns, bf, tt) ==
  <<Field("natoms", na), Field("nsteps", ns), Field("timestep", 0),
    Field("box", IF bf THEN 1 ELSE 0), Field("titles", tt)>>

HeaderLen == Len(HeaderCells(0, 0, FALSE, <<>>))

\* The offset of a header field from the start of the stream
FieldPos(name) ==
  (CHOOSE i \in 1..HeaderLen : HeaderCells(0, 0, FALSE, <<>>)[i].f = name) - 1

FrameCells(fr) ==
  (IF fr.box THEN <<Field("box", fr.tag)>> ELSE <<>>)
    \o <<Field("x", fr.tag), Field("y", fr.tag), Field("z", fr.tag)>>

\* Writing cells at offset pos of a stream: over what is there, and on
WriteAt(stream, pos, cells) ==
  LET end == IF pos + Len(cells) > Len(stream) THEN pos + Len(cells) ELSE Len(stream)
  IN [i \in 1..end |->
        IF i > pos /\ i <= pos + Len(cells) THEN cells[i - pos] ELSE stream[i]]

\* _titles.push_back("AUTO GENERATED BY LOOS")
DefaultTitles == <<"AUTO GENERATED BY LOOS">>

\* The titles a caller sets
CallerTitles == {<<"MY TITLE HERE">>}

\* A variant of the constructor that leaves _titles empty
DCDWriterCtor_noTitle ==
  [natoms |-> 0, nsteps |-> 0, current |-> 0, has_box |-> FALSE, titles |-> <<>>]

\* explicit DCDWriter(const std::string&) / DCDWriter(std::iostream&)
DCDWriterCtor_current1 ==
  [natoms |-> 0, nsteps |-> 0, current |-> 1, has_box |-> FALSE,
   titles |-> DefaultTitles]

DCDWriterCtor ==
  [natoms |-> 0, nsteps |-> 0, current |-> 0, has_box |-> FALSE,
   titles |-> DefaultTitles]

\* A variant of the batch constructors that starts _current at one
DCDWriterBatchCtor_current1(grps) ==
  [natoms |-> grps[1].natoms, nsteps |-> Len(grps), current |-> 1,
   has_box |-> grps[1].box, titles |-> DefaultTitles]

\* DCDWriter(const std::string&, const std::vector<AtomicGroup>&): the
\* member initializers and the title
DCDWriterBatchCtor(grps) ==
  [natoms |-> grps[1].natoms, nsteps |-> Len(grps), current |-> 0,
   has_box |-> grps[1].box, titles |-> DefaultTitles]

\* A writer just constructed with the members m, over an empty stream
NewWriter(m) ==
  [natoms |-> m.natoms, nsteps |-> m.nsteps, current |-> m.current,
   has_box |-> m.has_box, titles |-> m.titles, headerWritten |-> FALSE,
   ofs |-> <<>>, wpos |-> 0, written |-> <<>>, declared |-> 0, headers |-> 0,
   ret |-> "ok"]

\* The writer as a record, and a record as the writer's state or next state
Writer ==
  [natoms |-> natoms, nsteps |-> nsteps, current |-> current,
   has_box |-> has_box, titles |-> titles, headerWritten |-> headerWritten,
   ofs |-> ofs, wpos |-> wpos, written |-> written, declared |-> declared,
   headers |-> headers, ret |-> "ok"]

WriterIs(d) ==
  /\ natoms = d.natoms
  /\ nsteps = d.nsteps
  /\ current = d.current
  /\ has_box = d.has_box
  /\ titles = d.titles
  /\ headerWritten = d.headerWritten
  /\ ofs = d.ofs
  /\ wpos = d.wpos
  /\ written = d.written
  /\ declared = d.declared
  /\ headers = d.headers
  /\ dRet = d.ret

WriterBecomes(d) ==
  /\ natoms' = d.natoms
  /\ nsteps' = d.nsteps
  /\ current' = d.current
  /\ has_box' = d.has_box
  /\ titles' = d.titles
  /\ headerWritten' = d.headerWritten
  /\ ofs' = d.ofs
  /\ wpos' = d.wpos
  /\ written' = d.written
  /\ declared' = d.declared
  /\ headers' = d.headers
  /\ dRet' = d.ret

\* setHeader(na, ns, ts, bf); to be called before a header or frame is written
setHeader(na, ns, bf) ==
  /\ ~headerWritten
  /\ natoms' = na
  /\ nsteps' = ns
  /\ has_box' = bf
  /\ dOp' = "setHeader"
  /\ dFrames' = <<>>
  /\ dImplicit' = FALSE
  /\ dRet' = "ok"
  /\ UNCHANGED <<current, headerWritten, ofs, wpos, written, declared, titles, headers>>
  /\ UNCHANGED <<mtVars, xVars>>

\* setTitles(titles) / setTitle(s), before the header is written
setTitles(tt) ==
  /\ ~headerWritten
  /\ titles' = tt
  /\ dOp' = "setTitles"
  /\ dFrames' = <<>>
  /\ dImplicit' = FALSE
  /\ dRet' = "ok"
  /\ UNCHANGED <<natoms, nsteps, has_box, current, headerWritten, ofs, wpos, written,
                 declared, headers>>
  /\ UNCHANGED <<mtVars, xVars>>

\* writeHeader() on the writer d: the header record, put at the write position
HeaderWrite(d) ==
  [d EXCEPT !.ofs = WriteAt(d.ofs, d.wpos,
                            HeaderCells(d.natoms, d.nsteps, d.has_box, d.titles)),
            !.wpos = d.wpos + HeaderLen,
            !.headerWritten = TRUE,
            !.declared = d.nsteps,
            !.headers = d.headers + 1]

\* writeHeader(): the header record, emitted once, before any frame
writeHeader ==
  /\ ~headerWritten
  /\ WriterBecomes(HeaderWrite(Writer))
  /\ dOp' = "writeHeader"
  /\ dFrames' = <<>>
  /\ dImplicit' = FALSE
  /\ UNCHANGED <<mtVars, xVars>>

\* A variant of writeFrame that does not put the write position back after
\* rewriting the step count of the header
FrameWrite_noRestore(d, g) ==
  LET implicit == ~d.headerWritten
      d1 == IF implicit
            THEN HeaderWrite([d EXCEPT !.natoms = g.natoms, !.has_box = g.box])
            ELSE d
      fr == [natoms |-> g.natoms, box |-> g.box, tag |-> Len(d.written) + 1]
      s2 == WriteAt(d1.ofs, d1.wpos, FrameCells(fr))
      p2 == d1.wpos + Len(FrameCells(fr))
      cur == d1.current + 1
      patch == cur > d1.nsteps
      s3 == IF patch
            THEN WriteAt(s2, FieldPos("nsteps"), <<Field("nsteps", cur)>>)
            ELSE s2
  IN IF g.natoms # d1.natoms \/ g.box # d1.has_box
     THEN [d EXCEPT !.ret = "logic_error"]
     ELSE [d1 EXCEPT !.ofs = s3,
                     !.wpos = IF patch THEN FieldPos("nsteps") + 1 ELSE p2,
                     !.current = cur,
                     !.nsteps = IF patch THEN cur ELSE d1.nsteps,
                     !.written = Append(d.written, fr),
                     !.ret = "ok"]

\* A variant of writeFrame that does not compare the frame's box with the
\* header's box flag
FrameWrite_noBoxCheck(d, g) ==
  LET implicit == ~d.headerWritten
      d1 == IF implicit
            THEN HeaderWrite([d EXCEPT !.natoms = g.natoms, !.has_box = g.box])
            ELSE d
      fr == [natoms |-> g.natoms, box |-> g.box, tag |-> Len(d.written) + 1]
      s2 == WriteAt(d1.ofs, d1.wpos, FrameCells(fr))
      p2 == d1.wpos + Len(FrameCells(fr))
      cur == d1.current + 1
      patch == cur > d1.nsteps
      s3 == IF patch
            THEN WriteAt(s2, FieldPos("nsteps"), <<Field("nsteps", cur)>>)
            ELSE s2
  IN IF g.natoms # d1.natoms
     THEN [d EXCEPT !.ret = "logic_error"]
     ELSE [d1 EXCEPT !.ofs = s3,
                     !.wpos = p2,
                     !.current = cur,
                     !.nsteps = IF patch THEN cur ELSE d1.nsteps,
                     !.written = Append(d.written, fr),
                     !.ret = "ok"]

\* writeFrame(const AtomicGroup&) on the writer d, for a frame g of g.natoms
\* atoms, periodic or not
FrameWrite(d, g) ==
  LET implicit == ~d.headerWritten
      \* no header yet: one is made from this frame and written first
      d1 == IF implicit
            THEN HeaderWrite([d EXCEPT !.natoms = g.natoms, !.has_box = g.box])
            ELSE d
      fr == [natoms |-> g.natoms, box |-> g.box, tag |-> Len(d.written) + 1]
      \* the frame record
      s2 == WriteAt(d1.ofs, d1.wpos, FrameCells(fr))
      p2 == d1.wpos + Len(FrameCells(fr))
      cur == d1.current + 1
      \* past the declared step count: the header's field is rewritten in
      \* place and the write position restored
      patch == cur > d1.nsteps
      s3 == IF patch
            THEN WriteAt(s2, FieldPos("nsteps"), <<Field("nsteps", cur)>>)
            ELSE s2
  IN IF g.natoms # d1.natoms \/ g.box # d1.has_box
     THEN [d EXCEPT !.ret = "logic_error"]
     ELSE [d1 EXCEPT !.ofs = s3,
                     !.wpos = p2,
                     !.current = cur,
                     !.nsteps = IF patch THEN cur ELSE d1.nsteps,
                     !.written = Append(d.written, fr),
                     !.ret = "ok"]

\* writeFrame(const std::vector<AtomicGroup>&) on the writer d, from the
\* i-th frame of grps on: the frames one by one, in order, up to the first
\* that is refused
RECURSIVE FramesWrite(_, _, _)
FramesWrite(d, grps, i) ==
  IF i > Len(grps)
  THEN d
  ELSE LET d2 == FrameWrite(d, grps[i])
       IN IF d2.ret = "logic_error" THEN d2 ELSE FramesWrite(d2, grps, i + 1)

\* writeFrame(const AtomicGroup&) for a frame of na atoms, periodic or not
writeFrame(na, bx) ==
  /\ current < MaxFrames
  /\ WriterBecomes(FrameWrite(Writer, [natoms |-> na, box |-> bx]))
  /\ dOp' = "writeFrame"
  /\ dFrames' = <<[natoms |-> na, box |-> bx]>>
  /\ dImplicit' = ~headerWritten
  /\ UNCHANGED <<mtVars, xVars>>

\* writeFrame(const std::vector<AtomicGroup>&)
writeFrames(grps) ==
  /\ current + Len(grps) <= MaxFrames
  /\ WriterBecomes(FramesWrite(Writer, grps, 1))
  /\ dOp' = "writeFrames"
  /\ dFrames' = grps
  /\ dImplicit' = ~headerWritten
  /\ UNCHANGED <<mtVars, xVars>>

\* The frames a caller hands over, and the batches of them
Groups == [natoms : 1..MaxAtoms, box : BOOLEAN]
Batches == UNION {[1..n -> Groups] : n \in 1..MaxBatch}

\* The writer the batch constructors leave: the header written, then the
\* frames; a constructor that throws leaves no writer
BatchWriter(grps) ==
  FramesWrite(HeaderWrite(NewWriter(DCDWriterBatchCtor(grps))), grps, 1)

InitDCD ==
  /\ \/ /\ WriterIs(NewWriter(DCDWriterCtor))
        /\ dOp = "construct"
        /\ dFrames = <<>>
        /\ dImplicit = FALSE
     \/ \E grps \in Batches :
          /\ BatchWriter(grps).ret = "ok"
          /\ WriterIs(BatchWriter(grps))
          /\ dOp = "constructBatch"
          /\ dFrames = grps
          /\ dImplicit = FALSE
  /\ MtIdle
  /\ XdrIdle

NextDCD ==
  \/ \E na \in 1..MaxAtoms, ns \in 0..MaxSteps, bf \in BOOLEAN : setHeader(na, ns, bf)
  \/ \E tt \in CallerTitles : setTitles(tt)
  \/ writeHeader
  \/ \E g \in Groups : writeFrame(g.natoms, g.box)
  \/ \E grps \in Batches : writeFrames(grps)

SpecDCD == InitDCD /\ [][NextDCD]_vars

-----------------------------------------------------------------------------
(* Properties of DCDWriter *)

RECURSIVE FrameRecords(_)
FrameRecords(frames) ==
  IF frames = <<>> THEN <<>>
  ELSE FrameRecords(SubSeq(frames, 1, Len(frames) - 1)) \o FrameCells(frames[Len(frames)])

WriterKept ==
  UNCHANGED <<ofs, wpos, written, current, natoms, nsteps, has_box, titles,
              headerWritten, declared, headers>>

LastWritten(n) == SubSeq(written, Len(written) - n + 1, Len(written))

====
